---------------------------- MODULE Spec2Model ----------------------------
(***************************************************************************)
(* A model of the multi-tenant back office: the schema template expander,  *)
(* the tenant-scoped query executor and the store behind it, the schema    *)
(* provisioner, user registration with registration keys, and the          *)
(* dashboard aggregator.                                                   *)
(*                                                                         *)
(* Text (SQL templates, identifiers) is modelled as sequences of           *)
(* one-character strings, so that substitution is computed character by    *)
(* character, as String.prototype.replace computes it.                     *)
(***************************************************************************)
EXTENDS Naturals, Sequences, FiniteSets, TLC

(***************************************************************************)
(* Bounds of the model.                                                    *)
(***************************************************************************)
\* the longest template of the expander specification, in segments
MaxSegs == 3
\* the request slots of the tenant-scoped executor (each serves one request)
MaxReqs == 1
\* the rows inserted over a run
MaxRows == 2
\* the provisioner runs started over a run
MaxProvRuns == 2
\* the largest value the clock (Date.now()) takes
MaxClock == 2
\* the registerUser calls of a run
MaxRegs == 2
\* the largest usesAllowed a registration key is generated with
MaxUses == 2
\* the largest count a statistics call of a module answers
MaxStat == 1
\* the most rows the table of a module repository holds
MaxRepoRows == 3
\* the largest page size a caller of a list asks for
MaxLimit == 2

(***************************************************************************)
(* Text helpers.                                                           *)
(***************************************************************************)
\* the schema placeholder token of a query template: ${schema}
Placeholder == <<"$", "{", "s", "c", "h", "e", "m", "a", "}">>

\* the prefix of a schema name: tenant_
Prefix == <<"t", "e", "n", "a", "n", "t", "_">>

\* the characters /\$\{schema\}/ or '${schema}' is matched at position i of s
MatchesAt(s, pat, i) ==
    /\ i + Len(pat) - 1 <= Len(s)
    /\ \A k \in 1..Len(pat) : s[i + k - 1] = pat[k]

RECURSIVE ReplaceFrom(_, _, _, _)
\* s from position i on, every leftmost non-overlapping match of pat replaced
ReplaceFrom(s, pat, rep, i) ==
    IF i > Len(s) THEN <<>>
    ELSE IF MatchesAt(s, pat, i)
         THEN rep \o ReplaceFrom(s, pat, rep, i + Len(pat))
         ELSE <<s[i]>> \o ReplaceFrom(s, pat, rep, i + 1)

\* String.prototype.replace with a global regular expression of a literal
ReplaceAll(s, pat, rep) == ReplaceFrom(s, pat, rep, 1)

RECURSIVE FirstMatch(_, _, _)
\* the position of the first match of pat in s from i on, 0 when there is none
FirstMatch(s, pat, i) ==
    IF i > Len(s) THEN 0
    ELSE IF MatchesAt(s, pat, i) THEN i ELSE FirstMatch(s, pat, i + 1)

\* String.prototype.replace with a string pattern: the first match only
ReplaceFirst(s, pat, rep) ==
    LET p == FirstMatch(s, pat, 1)
    IN  IF p = 0 THEN s
        ELSE SubSeq(s, 1, p - 1) \o rep \o SubSeq(s, p + Len(pat), Len(s))

RECURSIVE Flatten(_)
\* the text of a template given as its segments
Flatten(segs) ==
    IF segs = <<>> THEN <<>> ELSE Head(segs) \o Flatten(Tail(segs))


\* one decimal digit as a character
DigitChar(d) ==
    CASE d = 0 -> "0" [] d = 1 -> "1" [] d = 2 -> "2" [] d = 3 -> "3"
      [] d = 4 -> "4" [] d = 5 -> "5" [] d = 6 -> "6" [] d = 7 -> "7"
      [] d = 8 -> "8" [] OTHER -> "9"

RECURSIVE Digits(_)
\* a number interpolated in a template literal: its decimal digits
Digits(n) ==
    IF n < 10 THEN <<DigitChar(n)>>
    ELSE Digits(n \div 10) \o <<DigitChar(n % 10)>>

\* the characters of [A-Za-z0-9_] that occur in the model's identifiers
AllowedChars ==
    {"a", "b", "c", "e", "n", "t", "_",
     "0", "1", "2", "3", "4", "5", "6", "7", "8", "9"}

\* an identifier made of allow-listed characters only
IsCleanIdentifier(id) == \A i \in 1..Len(id) : id[i] \in AllowedChars

(***************************************************************************)
(* Tenant identifiers.  A tenant id is the primary key the store generates *)
(* for the Tenant row, a UUID; UUIDs carry hyphens.                        *)
(***************************************************************************)
TenantIds == {<<"a", "1">>, <<"b", "-", "2">>}

(***************************************************************************)
(* The state.                                                              *)
(***************************************************************************)
VARIABLES
    \* the schema template expander
    xSite,      \* the call site of the expansion
    xSegs,      \* the template, as its segments
    xSchema,    \* the schema identifier substituted
    xOut,       \* the expanded text
    xDone,      \* whether the expansion ran
    \* the store, the tenant registry, the provisioner and the executor
    now,        \* the clock: the value Date.now() returns
    tenants,    \* the Tenant rows: records [id, schemaName, isActive]
    store,      \* the schemas of the store: schema name -> table -> [shape, rows]
    nextRow,    \* the rows inserted so far
    prov,       \* the last run of a provisioner
    provRuns,   \* the provisioner runs so far
    req,        \* the tenant-scoped requests: slot -> request
    \* registration
    keys,       \* the RegistrationKey rows: key id -> row
    users,      \* the User rows
    reg,        \* the registerUser calls: call -> its position and locals
    \* the dashboard
    dash,       \* the getDashboardMetrics call: its position and locals
    \* the removal of tenant schemas
    drop,       \* the last TenantService.deleteTenantSchema call
    \* the module repositories
    repo,       \* the table of a module and the call on it
    \* the statements handed to the executor
    sql,        \* the last list call: its statements and the values it was given
    rpc,        \* the last call of the store function execute_sql
    \* refresh tokens
    auth        \* the RefreshToken rows and the refreshTokens calls

expVars == <<xSite, xSegs, xSchema, xOut, xDone>>

coreVars == <<now, tenants, store, nextRow, prov, provRuns, req>>

regVars == <<keys, users, reg>>

sideVars == <<sql, rpc, auth>>

vars == <<expVars, coreVars, regVars, dash, drop, repo, sideVars>>

\* what a step of the expander leaves alone
OutsideExpand == UNCHANGED <<coreVars, regVars, dash, drop, repo, sideVars>>

\* what a step of the store, the registry, the provisioner or the executor
\* leaves alone
OutsideCore == UNCHANGED <<expVars, regVars, dash, drop, repo, sideVars>>

\* what a step of registration leaves alone, the clock and the Tenant rows
\* apart
OutsideRegister ==
    UNCHANGED <<expVars, store, nextRow, prov, provRuns, req, dash, drop, repo,
                sideVars>>

\* what a step of the dashboard leaves alone
OutsideDashboard == UNCHANGED <<expVars, coreVars, regVars, drop, repo, sideVars>>

\* what a call of TenantService.deleteTenantSchema leaves alone, the store
\* apart
OutsideDrop ==
    UNCHANGED <<expVars, now, tenants, nextRow, prov, provRuns, req, regVars, dash, repo,
                sideVars>>

\* what a call on a module repository leaves alone
OutsideRepo == UNCHANGED <<expVars, coreVars, regVars, dash, drop, sideVars>>

\* what the building of the statements of a list call leaves alone
OutsideSql == UNCHANGED <<expVars, coreVars, regVars, dash, drop, repo, rpc, auth>>

\* what a call of execute_sql leaves alone
OutsideRpc == UNCHANGED <<expVars, coreVars, regVars, dash, drop, repo, sql, auth>>

\* what a step of a refreshTokens call leaves alone
OutsideAuth == UNCHANGED <<expVars, coreVars, regVars, dash, drop, repo, sql, rpc>>

(***************************************************************************)
(* The schema template expander.                                           *)
(***************************************************************************)
\* the mutant of SchemaNameOf: the name does not take the tenant id in
SchemaNameOf_fixed(tenantId) == Prefix \o <<"i", "d">>

\* `tenant_${this.tenantId}`
SchemaNameOf(tenantId) == Prefix \o tenantId

\* query.replace(/\$\{schema\}/g, schemaName)
ExpandTemplate(query, schemaName) == ReplaceAll(query, Placeholder, schemaName)

\* statsQuery.replace('${schema}', tenant.schemaName)
StatsQueryExpand(statsQuery, schemaName) ==
    ReplaceFirst(statsQuery, Placeholder, schemaName)

\* the pieces templates are made of: the schema placeholder, positional
\* parameter placeholders and table text
Segments == {Placeholder, <<"$", "1">>, <<"$", "1", "0">>, <<".", "t">>}

\* every template of at most MaxSegs segments
Templates == UNION {[1..n -> Segments] : n \in 0..MaxSegs}

\* the statistics query of AdminController.getTenants: five sub-selects, each
\* qualified by the schema placeholder
StatsQuerySegs ==
    <<Placeholder, <<".", "c">>, Placeholder, <<".", "p">>, Placeholder,
      <<".", "t">>, Placeholder, <<".", "x">>, Placeholder, <<".", "i">>>>

\* the schema names AdminController.createTenant may have recorded
StatsSchemaNames == {Prefix \o Digits(n) \o <<"_">> \o <<r>> : n \in {7, 12}, r \in {"a", "b"}}

InitExpand ==
    /\ xSite \in {"executeInTenantSchema", "getTenants"}
    /\ \/ /\ xSite = "executeInTenantSchema"
          /\ xSegs \in Templates
          /\ xSchema \in {SchemaNameOf(id) : id \in TenantIds}
       \/ /\ xSite = "getTenants"
          /\ xSegs = StatsQuerySegs
          /\ xSchema \in StatsSchemaNames
    /\ xOut = <<>>
    /\ xDone = FALSE

\* TenantDatabase.executeInTenantSchema builds finalQuery
ExpandInExecute ==
    /\ xSite = "executeInTenantSchema"
    /\ ~xDone
    /\ xOut' = ExpandTemplate(Flatten(xSegs), xSchema)
    /\ xDone' = TRUE
    /\ UNCHANGED <<xSite, xSegs, xSchema>>
    /\ OutsideExpand

\* AdminController.getTenants builds the statistics query
ExpandInGetTenants ==
    /\ xSite = "getTenants"
    /\ ~xDone
    /\ xOut' = StatsQueryExpand(Flatten(xSegs), xSchema)
    /\ xDone' = TRUE
    /\ UNCHANGED <<xSite, xSegs, xSchema>>
    /\ OutsideExpand

\* no expansion is under way
IdleExpand ==
    /\ xSite = "none"
    /\ xSegs = <<>>
    /\ xSchema = <<>>
    /\ xOut = <<>>
    /\ xDone = FALSE

\* the template with each placeholder segment replaced by the identifier
SubstSegs(segs, schemaName) ==
    [i \in 1..Len(segs) |-> IF segs[i] = Placeholder THEN schemaName ELSE segs[i]]

\* "${schemaName}": an identifier enclosed in double quotes, as the
\* provisioner's CREATE SCHEMA statement writes it
QuotedIdentifier(schemaName) == <<"\"">> \o schemaName \o <<"\"">>

(***************************************************************************)
(* The store: schemas, their tables and rows.                              *)
(***************************************************************************)
EmptyFn == [x \in {} |-> x]

\* TenantService.createTenantTables: the tables it creates, in its order
ProvisionerTables ==
    <<"clients", "projects", "tasks", "transactions", "invoices", "publications">>

\* NotificationService: private tableName
NotificationsTable == "notifications"

\* the domain tables of a tenant schema: the six of the provisioner and the
\* table NotificationService creates on first use
DomainTables ==
    {ProvisionerTables[i] : i \in 1..Len(ProvisionerTables)} \cup {NotificationsTable}

\* fix-tenant-schemas.js: the tables it creates, in its order
FixScriptTables ==
    <<"transactions", "tasks", "clients", "projects", "invoices", "publications">>

\* the column shape a CREATE TABLE statement gives its table, named after the
\* statement; the script's statements for clients, projects, invoices and
\* publications are those of TenantService, its tasks and transactions differ
ShapeOf(creator, table) ==
    IF creator = "fixTenantSchemas" /\ table \in {"tasks", "transactions"}
    THEN <<"fixTenantSchemas", table>>
    ELSE IF creator \in {"fixTenantSchemas", "initializeTenantSchema"}
         THEN <<"TenantService", table>>
         ELSE <<creator, table>>

SchemaExists(st, s) == s \in DOMAIN st

TableExists(st, s, t) == s \in DOMAIN st /\ t \in DOMAIN st[s]

\* CREATE SCHEMA IF NOT EXISTS "s"
CreateSchemaIfNotExists(st, s) ==
    IF s \in DOMAIN st THEN st ELSE st @@ (s :> EmptyFn)

\* the mutant of CreateTableIfNotExists: DROP TABLE, then CREATE TABLE
CreateTableIfNotExists_recreate(st, s, t, shape) ==
    [st EXCEPT ![s] = [u \in (DOMAIN @) \cup {t} |->
        IF u = t THEN [shape |-> shape, rows |-> {}] ELSE @[u]]]

\* CREATE TABLE IF NOT EXISTS "s".t (...), in a schema that exists
CreateTableIfNotExists(st, s, t, shape) ==
    IF t \in DOMAIN st[s] THEN st
    ELSE [st EXCEPT ![s] = @ @@ (t :> [shape |-> shape, rows |-> {}])]

\* INSERT INTO s.t: one more row
InsertRow(st, s, t, row) ==
    [st EXCEPT ![s][t].rows = @ \cup {row}]

\* SELECT ... FROM s.t WHERE is_active = true
ActiveRows(st, s, t) == {r \in st[s][t].rows : r.active}

(***************************************************************************)
(* The tenant registry.                                                    *)
(***************************************************************************)
\* AdminController.createTenant: the random suffix of a schema name
RandChars == {"x", "y"}

\* `tenant_${Date.now()}_${Math.random().toString(36).substring(2, 8)}`
AdminSchemaName(ts, rnd) == Prefix \o Digits(ts) \o <<"_", rnd>>

\* the clock advances
Tick ==
    /\ now < MaxClock
    /\ now' = now + 1
    /\ UNCHANGED <<tenants, store, nextRow, prov, provRuns, req>>
    /\ OutsideCore

\* AdminController.createTenant: the Tenant row is stored under a generated
\* id; the creation of its schema is left undone (a TODO)
AdminCreateTenant ==
    \E id \in TenantIds, rnd \in RandChars :
        /\ \A t \in tenants : t.id # id
        /\ tenants' = tenants \cup
              {[id |-> id, schemaName |-> AdminSchemaName(now, rnd), isActive |-> TRUE]}
        /\ UNCHANGED <<now, store, nextRow, prov, provRuns, req>>
        /\ OutsideCore

\* TenantService.createTenant(name): `tenant_${Date.now()}`
TenantServiceSchemaName(ts) == Prefix \o Digits(ts)

\* TenantService.createTenant(name): the Tenant row is stored and its id
\* returned; nothing more is done
TenantServiceCreateTenant ==
    \E id \in TenantIds :
        /\ \A t \in tenants : t.id # id
        /\ tenants' = tenants \cup
              {[id |-> id, schemaName |-> TenantServiceSchemaName(now), isActive |-> TRUE]}
        /\ UNCHANGED <<now, store, nextRow, prov, provRuns, req>>
        /\ OutsideCore

\* AdminController.deleteTenant: Database.deleteTenant deletes the Tenant
\* row and the handler answers 'Tenant deleted successfully'; the removal of
\* the schema is left undone (a TODO)
AdminDeleteTenant ==
    \E t \in tenants :
        /\ tenants' = tenants \ {t}
        /\ UNCHANGED <<now, store, nextRow, prov, provRuns, req>>
        /\ OutsideCore

(***************************************************************************)
(* The provisioners: TenantService.initializeTenantSchema and the          *)
(* fix-tenant-schemas script.                                              *)
(***************************************************************************)
NoRun ==
    [kind |-> "none", schemaName |-> <<>>, completed |-> FALSE,
     fullAtStart |-> FALSE, missingAtStart |-> {}, created |-> {},
     hadRows |-> FALSE, rowsKept |-> TRUE]

ProvTableOrder(kind) ==
    IF kind = "fixTenantSchemas" THEN FixScriptTables ELSE ProvisionerTables

\* the statements of a run: CREATE SCHEMA, then one CREATE TABLE per table
StatementCount(kind) == 1 + Len(ProvTableOrder(kind))

\* the first n CREATE TABLE IF NOT EXISTS statements of the loop
RECURSIVE CreateTables(_, _, _, _)
CreateTables(st, kind, s, n) ==
    IF n = 0 THEN st
    ELSE LET t == ProvTableOrder(kind)[n]
         IN  CreateTableIfNotExists(CreateTables(st, kind, s, n - 1), s, t,
                                    ShapeOf(kind, t))

\* the store after the first k statements of a run ran
RunStatements(st, kind, s, k) ==
    IF k = 0 THEN st
    ELSE CreateTables(CreateSchemaIfNotExists(st, s), kind, s, k - 1)

TablesOf(st, s) == IF s \in DOMAIN st THEN DOMAIN st[s] ELSE {}

MissingTables(st, s) == DomainTables \ TablesOf(st, s)

\* the rows of each table of a schema
RowsOf(st, s) == [t \in TablesOf(st, s) |-> st[s][t].rows]

\* a schema that holds every table the provisioner defines
FullyProvisioned(st, s) ==
    \A i \in 1..Len(ProvisionerTables) : ProvisionerTables[i] \in TablesOf(st, s)

\* one run: its first k statements succeed; with k short of the statement
\* count the next statement fails in the store and the run stops with the
\* error
ProvRun(kind, s, k) ==
    /\ provRuns < MaxProvRuns
    /\ provRuns' = provRuns + 1
    /\ store' = RunStatements(store, kind, s, k)
    /\ prov' = [kind |-> kind, schemaName |-> s,
                completed |-> (k = StatementCount(kind)),
                fullAtStart |-> FullyProvisioned(store, s),
                missingAtStart |-> MissingTables(store, s),
                created |-> TablesOf(RunStatements(store, kind, s, k), s)
                               \ TablesOf(store, s),
                hadRows |-> (\E t \in TablesOf(store, s) : RowsOf(store, s)[t] # {}),
                rowsKept |-> (\A t \in TablesOf(store, s) :
                                 /\ t \in TablesOf(RunStatements(store, kind, s, k), s)
                                 /\ RowsOf(RunStatements(store, kind, s, k), s)[t]
                                        = RowsOf(store, s)[t])]
    /\ UNCHANGED <<now, tenants, nextRow, req>>
    /\ OutsideCore

\* the schema names a caller may hand to TenantService.initializeTenantSchema:
\* the name an executor call resolves for a tenant, or a recorded one
ProvisionArgs ==
    {SchemaNameOf(id) : id \in TenantIds} \cup {t.schemaName : t \in tenants}

\* TenantService.initializeTenantSchema(tenantId, schemaName)
InitializeTenantSchema ==
    \E s \in ProvisionArgs, k \in 0..StatementCount("initializeTenantSchema") :
        ProvRun("initializeTenantSchema", s, k)

\* fixTenantSchemas: the body of its loop, for one active tenant
FixTenantSchemas ==
    \E t \in tenants, k \in 0..StatementCount("fixTenantSchemas") :
        /\ t.isActive
        /\ ProvRun("fixTenantSchemas", t.schemaName, k)

\* no deleteTenantSchema call was made yet
NoDrop == [schemaName |-> <<>>, confirm |-> FALSE, dropped |-> FALSE]

\* DROP SCHEMA IF EXISTS "s" CASCADE: the schema goes with every table in it
DropSchemaCascade(st, s) == [u \in (DOMAIN st) \ {s} |-> st[u]]

\* TenantService.deleteTenantSchema(schemaName): the one parameter is the
\* schema name; a further argument a caller passes (a confirmation flag) is
\* never read
DeleteTenantSchema ==
    \E s \in ProvisionArgs, confirm \in BOOLEAN :
        /\ store' = DropSchemaCascade(store, s)
        /\ drop' = [schemaName |-> s, confirm |-> confirm,
                    dropped |-> SchemaExists(store, s)]
        /\ OutsideDrop

\* NotificationService.initializeTables(tenantId): the notifications table is
\* created on first use, in the schema the executor resolves; without the
\* schema the statement fails
NotificationsInitializeTables ==
    \E id \in TenantIds :
        /\ store' = IF SchemaExists(store, SchemaNameOf(id))
                     THEN CreateTableIfNotExists(store, SchemaNameOf(id), NotificationsTable,
                              ShapeOf("NotificationService", NotificationsTable))
                     ELSE store
        /\ UNCHANGED <<now, tenants, nextRow, prov, provRuns, req>>
        /\ OutsideCore

\* PublicationsService.initializeTables(tenantId): the publications table is
\* created on first use with the statement of the service, in the schema the
\* executor resolves; without the schema the statement fails
PublicationsInitializeTables ==
    \E id \in TenantIds :
        /\ store' = IF SchemaExists(store, SchemaNameOf(id))
                     THEN CreateTableIfNotExists(store, SchemaNameOf(id), "publications",
                              ShapeOf("PublicationsService", "publications"))
                     ELSE store
        /\ UNCHANGED <<now, tenants, nextRow, prov, provRuns, req>>
        /\ OutsideCore

(***************************************************************************)
(* The tenant-scoped query executor and the services on it.                *)
(***************************************************************************)
Reqs == 1..MaxReqs

ReqIdle ==
    [op |-> "none", pc |-> "idle", tenantId |-> <<>>, schema |-> <<>>,
     stmt |-> "none", outcome |-> "none", rows |-> {}, total |-> 0,
     sawTable |-> FALSE]

\* the synchronous part of tenantDB.executeInTenantSchema: a fresh
\* TenantDatabase holds the caller's tenantId, the schema name is built from
\* it and the query is handed to the store
Dispatch(r, op, tenantId, stmt, pc) ==
    req' = [req EXCEPT ![r] =
              [ReqIdle EXCEPT !.op = op, !.pc = pc, !.tenantId = tenantId,
                              !.schema = SchemaNameOf(tenantId), !.stmt = stmt]]

\* tenantDB.executeInTenantSchema(tenantId, query, params) with a SELECT or
\* an INSERT on the tasks table
ExecBegin ==
    \E r \in Reqs, id \in TenantIds, stmt \in {"select", "insert"} :
        /\ req[r].pc = "idle"
        /\ stmt = "insert" =>
              nextRow + Cardinality({q \in Reqs : req[q].pc = "sent"
                                                  /\ req[q].stmt = "insert"}) < MaxRows
        /\ Dispatch(r, "executeInTenantSchema", id, stmt, "sent")
        /\ UNCHANGED <<now, tenants, store, nextRow, prov, provRuns>>
        /\ OutsideCore

\* the store runs the query of an executeInTenantSchema call; a missing
\* schema or table is an error, which the call rethrows
ExecStore ==
    \E r \in Reqs :
        /\ req[r].op = "executeInTenantSchema"
        /\ req[r].pc = "sent"
        /\ IF ~TableExists(store, req[r].schema, "tasks")
           THEN /\ req' = [req EXCEPT ![r].pc = "done", ![r].outcome = "error"]
                /\ UNCHANGED <<store, nextRow>>
           ELSE IF req[r].stmt = "select"
           THEN /\ req' = [req EXCEPT ![r].pc = "done", ![r].outcome = "ok",
                                      ![r].sawTable = TRUE,
                                      ![r].rows = ActiveRows(store, req[r].schema, "tasks")]
                /\ UNCHANGED <<store, nextRow>>
           ELSE /\ nextRow' = nextRow + 1
                /\ store' = InsertRow(store, req[r].schema, "tasks",
                                [id |-> nextRow + 1, owner |-> req[r].tenantId,
                                 active |-> TRUE])
                /\ req' = [req EXCEPT ![r].pc = "done", ![r].outcome = "ok",
                                      ![r].sawTable = TRUE]
        /\ UNCHANGED <<now, tenants, prov, provRuns>>
        /\ OutsideCore

\* the caller has its answer; the slot serves the next request
ReqReturn ==
    \E r \in Reqs :
        /\ req[r].pc = "done"
        /\ req' = [req EXCEPT ![r] = ReqIdle]
        /\ UNCHANGED <<now, tenants, store, nextRow, prov, provRuns>>
        /\ OutsideCore

\* the executeInTenantSchema of the third TenantDatabase: the query text is
\* built and logged, nothing is sent, the answer is the empty list
MockExec ==
    \E r \in Reqs, id \in TenantIds :
        /\ req[r].pc = "idle"
        /\ req' = [req EXCEPT ![r] =
              [ReqIdle EXCEPT !.op = "mockExecuteInTenantSchema", !.pc = "done",
                              !.tenantId = id, !.schema = SchemaNameOf(id),
                              !.stmt = "select", !.outcome = "ok"]]
        /\ UNCHANGED <<now, tenants, store, nextRow, prov, provRuns>>
        /\ OutsideCore

\* TasksService.getTaskStats(tenantId) sends its statistics query
GetTaskStatsBegin ==
    \E r \in Reqs, id \in TenantIds :
        /\ req[r].pc = "idle"
        /\ Dispatch(r, "getTaskStats", id, "select", "sent")
        /\ UNCHANGED <<now, tenants, store, nextRow, prov, provRuns>>
        /\ OutsideCore

\* the statistics query returns; an error is caught and answered with zeros
GetTaskStatsStore ==
    \E r \in Reqs :
        /\ req[r].op = "getTaskStats"
        /\ req[r].pc = "sent"
        /\ IF ~TableExists(store, req[r].schema, "tasks")
           THEN req' = [req EXCEPT ![r].pc = "done", ![r].outcome = "ok",
                                   ![r].total = 0]
           ELSE req' = [req EXCEPT ![r].pc = "done", ![r].outcome = "ok",
                                   ![r].sawTable = TRUE,
                                   ![r].total =
                                       Cardinality(ActiveRows(store, req[r].schema, "tasks"))]
        /\ UNCHANGED <<now, tenants, store, nextRow, prov, provRuns>>
        /\ OutsideCore

\* TasksService.getTasks(tenantId) starts: initializeTables sends its
\* CREATE TABLE IF NOT EXISTS
GetTasksBegin ==
    \E r \in Reqs, id \in TenantIds :
        /\ req[r].pc = "idle"
        /\ Dispatch(r, "getTasks", id, "createTable", "init")
        /\ UNCHANGED <<now, tenants, store, nextRow, prov, provRuns>>
        /\ OutsideCore

\* initializeTables runs in the store: without the schema it fails, and
\* getTasks catches the error and answers { tasks: [], total: 0 }
GetTasksInit ==
    \E r \in Reqs :
        /\ req[r].op = "getTasks"
        /\ req[r].pc = "init"
        /\ IF ~SchemaExists(store, req[r].schema)
           THEN /\ req' = [req EXCEPT ![r].pc = "done", ![r].outcome = "ok"]
                /\ store' = store
           ELSE /\ store' = CreateTableIfNotExists(store, req[r].schema, "tasks",
                                                   ShapeOf("TasksService", "tasks"))
                /\ req' = [req EXCEPT ![r].pc = "query", ![r].stmt = "select"]
        /\ UNCHANGED <<now, tenants, nextRow, prov, provRuns>>
        /\ OutsideCore

\* the list and the count queries of getTasks return; an error of either is
\* caught and answered with { tasks: [], total: 0 }
GetTasksQuery ==
    \E r \in Reqs :
        /\ req[r].op = "getTasks"
        /\ req[r].pc = "query"
        /\ IF ~TableExists(store, req[r].schema, "tasks")
           THEN req' = [req EXCEPT ![r].pc = "done", ![r].outcome = "ok"]
           ELSE req' = [req EXCEPT ![r].pc = "done", ![r].outcome = "ok",
                                   ![r].sawTable = TRUE,
                                   ![r].rows = ActiveRows(store, req[r].schema, "tasks"),
                                   ![r].total =
                                       Cardinality(ActiveRows(store, req[r].schema, "tasks"))]
        /\ UNCHANGED <<now, tenants, store, nextRow, prov, provRuns>>
        /\ OutsideCore

(***************************************************************************)
(* Registration keys and AuthService.registerUser.                         *)
(***************************************************************************)
KeyIds == {"k1"}

\* the plain keys a caller may present: the plain key of a key row, or
\* another text
PlainKeys == KeyIds \cup {"bad"}

Emails == {"e1", "e2"}

\* no tenant: the tenantId of a key that is bound to none
NoTenant == <<>>

\* bcrypt.hash(key, 12)
HashOf(plain) == <<"hash", plain>>

\* bcrypt.compare(key, keyHash)
Compare(plain, keyHash) == keyHash = HashOf(plain)

RegCalls == 1..MaxRegs

RegIdle ==
    [pc |-> "idle", email |-> "none", key |-> "none", keyId |-> "none",
     usesLeft |-> 0, usedLogs |-> <<>>, keyTenant |-> NoTenant,
     tenantId |-> NoTenant, isNewTenant |-> FALSE, userId |-> 0,
     outcome |-> "none"]

\* the call throws
Throw(p) == [reg EXCEPT ![p].pc = "done", ![p].outcome = "error"]

\* RegistrationKeyService.generateKey(request, createdBy); usesAllowed 0
\* stands for a request without usesAllowed
GenerateKey ==
    \E k \in KeyIds \ DOMAIN keys, uses \in 0..MaxUses,
       tid \in {NoTenant} \cup {t.id : t \in tenants} :
        /\ keys' = keys @@ (k :>
              [keyHash |-> HashOf(k), tenantId |-> tid,
               usesAllowed |-> IF uses = 0 THEN 1 ELSE uses,
               usesLeft |-> IF uses = 0 THEN 1 ELSE uses,
               usedLogs |-> <<>>, revoked |-> FALSE])
        /\ UNCHANGED <<now, tenants, users, reg>>
        /\ OutsideRegister

\* RegistrationKeyService.revokeKey(keyId)
RevokeKey ==
    \E k \in DOMAIN keys :
        /\ keys' = [keys EXCEPT ![k].revoked = TRUE]
        /\ UNCHANGED <<now, tenants, users, reg>>
        /\ OutsideRegister

\* Database.findValidRegistrationKeys: the rows, or [] on a store error
ValidKeys(err) ==
    IF err THEN {}
    ELSE {k \in DOMAIN keys : ~keys[k].revoked /\ keys[k].usesLeft > 0}

\* AuthService.registerUser(email, password, name, key) is called
RegisterBegin ==
    \E p \in RegCalls, email \in Emails, key \in PlainKeys :
        /\ reg[p].pc = "idle"
        /\ reg' = [reg EXCEPT ![p] =
              [RegIdle EXCEPT !.pc = "findKeys", !.email = email, !.key = key]]
        /\ UNCHANGED <<now, tenants, keys, users>>
        /\ OutsideRegister

\* the valid keys are read and the presented key is compared with each; the
\* call keeps the row it matched, as it was read
RegFindKey ==
    \E p \in RegCalls, err \in BOOLEAN :
        /\ reg[p].pc = "findKeys"
        /\ LET match == {k \in ValidKeys(err) : Compare(reg[p].key, keys[k].keyHash)}
           IN  IF match = {}
               THEN reg' = Throw(p)
               ELSE LET k == CHOOSE k \in match : TRUE
                    IN  reg' = [reg EXCEPT ![p].pc = "findUser",
                                           ![p].keyId = k,
                                           ![p].usesLeft = keys[k].usesLeft,
                                           ![p].usedLogs = keys[k].usedLogs,
                                           ![p].keyTenant = keys[k].tenantId]
        /\ UNCHANGED <<now, tenants, keys, users>>
        /\ OutsideRegister

\* Database.findUserByEmail: the row, or null on a store error
RegFindUser ==
    \E p \in RegCalls, err \in BOOLEAN :
        /\ reg[p].pc = "findUser"
        /\ IF ~err /\ \E u \in users : u.email = reg[p].email
           THEN reg' = Throw(p)
           ELSE reg' = [reg EXCEPT ![p].pc = "tenant"]
        /\ UNCHANGED <<now, tenants, keys, users>>
        /\ OutsideRegister

\* `tenant_${Date.now()}`
RegisterSchemaName(ts) == Prefix \o Digits(ts)

\* the tenant of the key is looked up, or a Tenant row is created
RegTenant ==
    \E p \in RegCalls, err \in BOOLEAN :
        /\ reg[p].pc = "tenant"
        /\ IF err
           THEN /\ reg' = Throw(p)
                /\ tenants' = tenants
           ELSE IF reg[p].keyTenant # NoTenant
           THEN /\ reg' = IF \E t \in tenants : t.id = reg[p].keyTenant
                          THEN [reg EXCEPT ![p].pc = "createUser",
                                           ![p].tenantId = reg[p].keyTenant]
                          ELSE Throw(p)
                /\ tenants' = tenants
           ELSE \E id \in TenantIds :
                /\ \A t \in tenants : t.id # id
                /\ tenants' = tenants \cup
                      {[id |-> id, schemaName |-> RegisterSchemaName(now),
                        isActive |-> TRUE]}
                /\ reg' = [reg EXCEPT ![p].pc = "createUser",
                                      ![p].tenantId = id,
                                      ![p].isNewTenant = TRUE]
        /\ UNCHANGED <<now, keys, users>>
        /\ OutsideRegister

\* Database.createUser: the row is stored, unless the store fails or holds
\* the email already (email is a unique field)
RegCreateUser ==
    \E p \in RegCalls, err \in BOOLEAN :
        /\ reg[p].pc = "createUser"
        /\ IF err \/ \E u \in users : u.email = reg[p].email
           THEN /\ reg' = Throw(p)
                /\ users' = users
           ELSE /\ users' = users \cup
                      {[id |-> Cardinality(users) + 1, email |-> reg[p].email,
                        tenantId |-> reg[p].tenantId, key |-> reg[p].keyId]}
                /\ reg' = [reg EXCEPT ![p].pc = "updateKey",
                                      ![p].userId = Cardinality(users) + 1]
        /\ UNCHANGED <<now, tenants, keys>>
        /\ OutsideRegister

\* Database.updateRegistrationKeyUsage writes usesLeft and usedLogs computed
\* from the row as the call read it; then the tokens are made and the call
\* returns
RegUpdateKey ==
    \E p \in RegCalls, err \in BOOLEAN :
        /\ reg[p].pc = "updateKey"
        /\ IF err
           THEN /\ reg' = Throw(p)
                /\ keys' = keys
           ELSE /\ keys' = [keys EXCEPT
                      ![reg[p].keyId].usesLeft = reg[p].usesLeft - 1,
                      ![reg[p].keyId].usedLogs = Append(reg[p].usedLogs, reg[p].userId)]
                /\ reg' = [reg EXCEPT ![p].pc = "done", ![p].outcome = "ok"]
        /\ UNCHANGED <<now, tenants, users>>
        /\ OutsideRegister

InitRegister ==
    /\ keys = EmptyFn
    /\ users = {}
    /\ reg = [p \in RegCalls |-> RegIdle]

(***************************************************************************)
(* DashboardService.getDashboardMetrics, in its first and its last         *)
(* version.                                                                *)
(***************************************************************************)
\* the account types of a user, and the 'basic' DashboardController.getMetrics
\* passes for a user without one
AccountTypes == {"SIMPLES", "COMPOSTA", "GERENCIAL", "basic"}

\* the versions of DashboardService.getDashboardMetrics the file holds
Versions == {"first", "middle", "last"}

\* the middle version runs its five queries one after the other, in this order
MiddleOrder == <<"transactions", "invoices", "clients", "projects", "tasks">>

BasicModules == {"clients", "projects", "tasks"}

FinancialModules == {"transactions", "invoices"}

\* the modules the aggregate is made of
StatModules == BasicModules \cup FinancialModules

AllModules == StatModules \cup {"publications"}

\* the row TasksService.getTaskStats answers for a count v (the model gives
\* every count of a module one value); on a store error it answers the row
\* of zeros
TaskStatsRow(v) ==
    [total |-> v, completed |-> v, in_progress |-> v, not_started |-> v,
     urgent |-> v]

\* row.field || 0, parseInt(row.field) || 0: an absent field reads as 0
Field(row, f) == IF f \in DOMAIN row THEN row[f] ELSE 0

\* the tasks section built from the row of getTaskStats
TasksSection(version, row) ==
    IF version \in {"first", "middle"}
    THEN [total |-> Field(row, "total"), completed |-> Field(row, "completed"),
          inProgress |-> Field(row, "in_progress"),
          notStarted |-> Field(row, "not_started"),
          urgent |-> Field(row, "urgent")]
    ELSE [total |-> Field(row, "total"), completed |-> Field(row, "completed"),
          inProgress |-> Field(row, "inProgress"),
          notStarted |-> Field(row, "notStarted"),
          urgent |-> Field(row, "urgent")]

\* let financialStats = { revenue: 0, ..., invoices: { total: 0, ... } }
ZeroFinancial == [transactions |-> 0, invoices |-> 0]

NoMetrics ==
    [financial |-> ZeroFinancial, clients |-> 0, projects |-> 0,
     tasks |-> TasksSection("first", TaskStatsRow(0)), publications |-> 0]

\* no response was sent
NoResponse == [status |-> 0, error |-> "none", body |-> NoMetrics]

DashIdle ==
    [pc |-> "idle", version |-> "none", accountType |-> "none",
     caller |-> "none", tenantId |-> NoTenant, schemaAtStart |-> FALSE,
     pending |-> {}, issued |-> {}, failed |-> {}, rejected |-> {},
     value |-> [m \in AllModules |-> 0],
     financial |-> ZeroFinancial, outcome |-> "none", metrics |-> NoMetrics,
     response |-> NoResponse]

\* the schema the queries of the call are qualified with: the services go
\* through the executor, the middle version writes ${tenantId} itself
DashSchema(d) ==
    IF d.version = "middle" THEN d.tenantId ELSE SchemaNameOf(d.tenantId)

\* the statistics calls of the modules are issued
Issue(d, pc, modules) ==
    [d EXCEPT !.pc = pc, !.pending = modules, !.issued = @ \cup modules]

\* the first statement of getDashboardMetrics: the three basic statistics
\* calls together, or the first query of the middle version
Enter(d) ==
    IF d.version = "middle"
    THEN Issue(d, "sequence", {MiddleOrder[1]})
    ELSE Issue(d, "basic", BasicModules)

\* the metrics object the call returns
Metrics(d, financial) ==
    [financial |-> financial,
     clients |-> d.value["clients"],
     projects |-> d.value["projects"],
     tasks |-> TasksSection(d.version, TaskStatsRow(d.value["tasks"])),
     publications |-> d.value["publications"]]

\* getDashboardMetrics(tenantId, userId, accountType) is called: the three
\* basic statistics calls are issued together
DashBegin ==
    \E version \in Versions, accountType \in AccountTypes :
        /\ dash.pc \in {"idle", "responded"}
              \/ (dash.pc = "done" /\ dash.caller # "getStats")
        /\ dash' = Enter([DashIdle EXCEPT !.version = version,
                                          !.accountType = accountType,
                                          !.caller = "direct"])
        /\ OutsideDashboard

\* DashboardController.getStats: an authenticated request of a user of a
\* tenant calls getDashboardMetrics(req.tenantId, req.user.id,
\* req.user.accountType)
GetStatsBegin ==
    \E version \in Versions, accountType \in AccountTypes, id \in TenantIds :
        /\ dash.pc \in {"idle", "responded"}
              \/ (dash.pc = "done" /\ dash.caller # "getStats")
        /\ dash' = Enter([DashIdle EXCEPT
                             !.version = version, !.accountType = accountType,
                             !.caller = "getStats", !.tenantId = id,
                             !.schemaAtStart = SchemaExists(store, SchemaNameOf(id))])
        /\ OutsideDashboard

\* getStats answers: res.json(metrics), or in its catch status 500 with
\* 'Failed to fetch dashboard stats'
GetStatsRespond ==
    /\ dash.caller = "getStats"
    /\ dash.pc = "done"
    /\ dash' = [dash EXCEPT
          !.pc = "responded",
          !.response = IF dash.outcome = "ok"
                       THEN [status |-> 200, error |-> "none", body |-> dash.metrics]
                       ELSE [status |-> 500, error |-> "Failed to fetch dashboard stats",
                             body |-> NoMetrics]]
    /\ OutsideDashboard

\* the query of a call for a known tenant cannot but fail: the schema is
\* missing, or the table is for a query that names it (getTaskStats and the
\* queries of the middle version)
MustFail(st, d, m) ==
    /\ d.tenantId # NoTenant
    /\ IF m = "tasks" \/ d.version = "middle"
       THEN ~TableExists(st, DashSchema(d), m)
       ELSE ~SchemaExists(st, DashSchema(d))

\* a statistics call that is under way ends: it answers the module's counts,
\* or its query fails in the store.  getTaskStats catches the failure and
\* answers zeros; the calls of the other modules and the queries of the
\* middle version reject.  getPublicationsStats runs initializeTables first
DashSettle ==
    \E m \in dash.pending, fails \in BOOLEAN, v \in 0..MaxStat :
        /\ MustFail(store, dash, m) => fails
        /\ dash' = [dash EXCEPT
              !.pending = @ \ {m},
              !.failed = IF fails THEN @ \cup {m} ELSE @,
              !.rejected = IF fails /\ (m # "tasks" \/ dash.version = "middle")
                           THEN @ \cup {m} ELSE @,
              !.value[m] = IF fails THEN 0 ELSE v]
        /\ store' = IF /\ m = "publications"
                       /\ dash.tenantId # NoTenant
                       /\ SchemaExists(store, DashSchema(dash))
                    THEN CreateTableIfNotExists(store, DashSchema(dash), "publications",
                             ShapeOf("PublicationsService", "publications"))
                    ELSE store
        /\ UNCHANGED <<expVars, now, tenants, nextRow, prov, provRuns, req,
                       regVars, drop, repo, sideVars>>

\* the middle version: a query has returned; its failure is rethrown as
\* 'Failed to get dashboard metrics', else the next query is sent, and after
\* the last one the metrics are returned, the financial section with the
\* sums that were read whatever the account type
DashNextQuery ==
    /\ dash.pc = "sequence"
    /\ dash.pending = {}
    /\ dash' =
          IF dash.rejected # {}
          THEN [dash EXCEPT !.pc = "done", !.outcome = "error"]
          ELSE IF Cardinality(dash.issued) < Len(MiddleOrder)
          THEN Issue(dash, "sequence", {MiddleOrder[Cardinality(dash.issued) + 1]})
          ELSE LET read == [transactions |-> dash.value["transactions"],
                            invoices |-> dash.value["invoices"]]
               IN  [dash EXCEPT !.pc = "done", !.outcome = "ok",
                                !.financial = read,
                                !.metrics = Metrics(dash, read)]
    /\ OutsideDashboard

\* the await of the financial statistics, once the basic ones are in
AwaitFinancial(d) ==
    IF d.accountType \in {"COMPOSTA", "GERENCIAL"}
    THEN Issue(d, "financial", FinancialModules)
    ELSE IF d.version = "first"
         THEN Issue(d, "publications", {"publications"})
         ELSE [d EXCEPT !.pc = "done", !.outcome = "ok",
                        !.metrics = Metrics(d, ZeroFinancial)]

\* Promise.all of the basic calls settles: with the first rejection it
\* rejects and the call rethrows; with the last answer it resolves
DashJoinBasic ==
    /\ dash.pc = "basic"
    /\ dash.rejected # {} \/ dash.pending = {}
    /\ dash' = IF dash.rejected # {}
               THEN [dash EXCEPT !.pc = "done", !.outcome = "error"]
               ELSE AwaitFinancial(dash)
    /\ OutsideDashboard

\* Promise.all of the financial calls settles: the last version catches a
\* rejection and keeps the zeros of financialStats, the first rethrows
DashJoinFinancial ==
    /\ dash.pc = "financial"
    /\ dash.rejected # {} \/ dash.pending = {}
    /\ LET read == [transactions |-> dash.value["transactions"],
                    invoices |-> dash.value["invoices"]]
       IN  dash' =
             IF dash.version = "first"
             THEN IF dash.rejected # {}
                  THEN [dash EXCEPT !.pc = "done", !.outcome = "error"]
                  ELSE [Issue(dash, "publications", {"publications"})
                            EXCEPT !.financial = read]
             ELSE [dash EXCEPT !.pc = "done", !.outcome = "ok",
                     !.financial = IF dash.rejected # {} THEN ZeroFinancial ELSE read,
                     !.metrics = Metrics(dash,
                         IF dash.rejected # {} THEN ZeroFinancial ELSE read)]
    /\ OutsideDashboard

\* the first version awaits the publications statistics, then returns
DashJoinPublications ==
    /\ dash.pc = "publications"
    /\ dash.pending = {}
    /\ dash' = IF dash.rejected # {}
               THEN [dash EXCEPT !.pc = "done", !.outcome = "error"]
               ELSE [dash EXCEPT !.pc = "done", !.outcome = "ok",
                                 !.metrics = Metrics(dash, dash.financial)]
    /\ OutsideDashboard

InitDashboard == dash = DashIdle

(***************************************************************************)
(* The module repositories: PublicationsService, NotificationService and   *)
(* TasksService on the table of their module in one tenant schema.         *)
(***************************************************************************)
Services == {"publications", "notifications", "tasks"}

UserIds == {"u1", "u2"}

\* the values of publication_date and of created_at (DEFAULT NOW()); no
\* constraint keeps two rows from holding the same
Stamps == {1, 2}

\* the columns of a row the queries look at; publication_date is a column of
\* publications only, and the queries on tasks name no user
RowValues(service, stamps) ==
    [date : IF service = "publications" THEN stamps ELSE {0},
     createdAt : stamps,
     user : IF service = "tasks" THEN {"u1"} ELSE UserIds,
     active : BOOLEAN]

\* every content of the table with at most MaxRepoRows rows; the id is the
\* primary key
Tables(service, stamps) ==
    UNION {[1..n -> RowValues(service, stamps)] : n \in 0..MaxRepoRows}

\* the mutant of Matches: WHERE is_active = TRUE
Matches_anyUser(service, row, user) == row.active

\* WHERE is_active = TRUE AND user_id = $1 (tasks: WHERE is_active = true)
Matches(service, row, user) ==
    row.active /\ (service = "tasks" \/ row.user = user)

MatchingIds(service, rows, user) ==
    {id \in DOMAIN rows : Matches(service, rows[id], user)}

\* ORDER BY publication_date DESC, created_at DESC (publications);
\* ORDER BY created_at DESC (notifications, tasks)
SortKey(service, row) ==
    <<IF service = "publications" THEN row.date ELSE 0, row.createdAt>>

KeyAtLeast(a, b) == a[1] > b[1] \/ (a[1] = b[1] /\ a[2] >= b[2])

\* the orders in which the store may answer a query with that ORDER BY: the
\* rows descend by the sort key, and rows of equal key come in any order
Orderings(service, rows, ids) ==
    {f \in [1..Cardinality(ids) -> ids] :
        /\ \A i \in DOMAIN f, j \in DOMAIN f : i # j => f[i] # f[j]
        /\ \A i \in DOMAIN f : i < Cardinality(ids) =>
              KeyAtLeast(SortKey(service, rows[f[i]]), SortKey(service, rows[f[i + 1]]))}

\* LIMIT limit OFFSET offset
LimitOffset(f, limit, offset) ==
    SubSeq(f, offset + 1, IF offset + limit < Len(f) THEN offset + limit ELSE Len(f))

\* Math.ceil(total / limit)
CeilDiv(total, limit) == (total + limit - 1) \div limit

\* the two executors: TenantDatabase.executeInTenantSchema over Prisma and
\* over the store function execute_sql
Executors == {"prisma", "supabase"}

\* the length of the array executeInTenantSchema answers for an UPDATE that
\* matched n rows: execute_sql answers one row of confirmation for every
\* statement that is no SELECT; $queryRawUnsafe answers the rows of the
\* RETURNING clause, which only deleteTask writes
ResultLength(version, service, n) ==
    IF version = "supabase" THEN 1
    ELSE IF service = "tasks" THEN n ELSE 0

\* the mutant of SoftDelete: DELETE FROM the table
SoftDelete_physical(rows, ids) == [id \in (DOMAIN rows) \ ids |-> rows[id]]

\* UPDATE ... SET is_active = FALSE on the rows of the ids
SoftDelete(rows, ids) ==
    [id \in DOMAIN rows |-> IF id \in ids THEN [rows[id] EXCEPT !.active = FALSE]
                                          ELSE rows[id]]

\* the table, and the call on it that is under way or was the last to end:
\* op, the caller's user id, limit and page of a listing, the ids of the rows
\* answered so far (seen), the ids of the last answer as a set (ids), the
\* count answered (total), the rows soft-deleted through the repository
\* (deleted), the rows the call matched if it is a write (hit) and what it
\* returned if it is a delete (ret)
RepoIdle ==
    [service |-> "none", rows |-> <<>>, deleted |-> {}, op |-> "none",
     user |-> "none", limit |-> 0, page |-> 0, seen |-> <<>>, ids |-> {},
     total |-> 0, done |-> FALSE, hit |-> {}, ret |-> FALSE]

IdleRepo == repo = RepoIdle

\* a table of the bounds, before any call
InitRepo(services, stamps) ==
    \E service \in services :
        \E rows \in Tables(service, stamps) :
            repo = [RepoIdle EXCEPT !.service = service, !.rows = rows]

\* a caller starts to list with a filter: page 1 of getPublications or
\* getUserNotifications, or getTasks with offset 0
ListBegin ==
    \E user \in UserIds, limit \in 1..MaxLimit :
        /\ repo.op = "none" \/ repo.done
        /\ repo.service = "tasks" => user = "u1"
        /\ repo' = [repo EXCEPT !.op = "list", !.user = user, !.limit = limit,
                                !.page = 1, !.seen = <<>>, !.ids = {},
                                !.total = 0, !.done = FALSE,
                                !.hit = {}, !.ret = FALSE]
        /\ OutsideRepo

\* one call of getPublications or getUserNotifications (or getTasks): the
\* page query and the count query run with the same WHERE clause, the
\* pagination is computed, and the caller goes on to the next page while
\* hasNext is true; getTasks answers no pagination and is called once
ListPage ==
    /\ repo.op = "list"
    /\ ~repo.done
    /\ \E f \in Orderings(repo.service, repo.rows,
                          MatchingIds(repo.service, repo.rows, repo.user)) :
          LET offset == (repo.page - 1) * repo.limit
              answer == LimitOffset(f, repo.limit, offset)
              total == Len(f)
              totalPages == CeilDiv(total, repo.limit)
              hasNext == repo.service # "tasks" /\ repo.page < totalPages
          IN  repo' = [repo EXCEPT !.seen = @ \o answer,
                                   !.ids = {answer[i] : i \in DOMAIN answer},
                                   !.total = total,
                                   !.page = IF hasNext THEN @ + 1 ELSE @,
                                   !.done = ~hasNext]
    /\ OutsideRepo

\* deletePublication(tenantId, userId, publicationId), deleteTask(tenantId,
\* taskId) or deleteNotifications(tenantId, userId, notificationIds): the
\* UPDATE sets is_active = FALSE on the active rows of the ids (and, but for
\* tasks, of the user); no row leaves the table
DeleteRows ==
    \E user \in UserIds, ids \in SUBSET (1..MaxRepoRows), version \in Executors :
        /\ repo.service \in Services
        /\ repo.service = "tasks" => user = "u1"
        /\ IF repo.service = "notifications" THEN ids # {} ELSE Cardinality(ids) = 1
        /\ LET hit == ids \cap MatchingIds(repo.service, repo.rows, user)
           IN  repo' = [repo EXCEPT !.rows = SoftDelete(repo.rows, hit),
                                    !.deleted = @ \cup hit,
                                    !.op = "delete", !.user = user,
                                    !.limit = 0, !.page = 0, !.seen = <<>>,
                                    !.ids = {}, !.total = 0, !.done = TRUE,
                                    !.hit = hit,
                                    !.ret = ResultLength(version, repo.service,
                                                         Cardinality(hit)) > 0]
        /\ OutsideRepo

\* createPublication(tenantId, userId, publicationData): INSERT of a row with
\* user_id = $2 under a new id; is_active defaults to TRUE
CreatePublication ==
    \E user \in UserIds, date \in {repo.rows[id].date : id \in DOMAIN repo.rows} \cup {1} :
        /\ repo.service = "publications"
        /\ Len(repo.rows) < MaxRepoRows
        /\ repo' = [repo EXCEPT !.rows = Append(@, [date |-> date, createdAt |-> date,
                                                   user |-> user, active |-> TRUE]),
                                !.op = "create", !.user = user,
                                !.limit = 0, !.page = 0, !.seen = <<>>,
                                !.ids = {Len(repo.rows) + 1}, !.total = 0,
                                !.done = TRUE, !.hit = {}, !.ret = FALSE]
        /\ OutsideRepo

\* updatePublication(tenantId, userId, publicationId, updateData): UPDATE ...
\* SET status, updated_at WHERE id = $1 AND user_id = $2 AND is_active = TRUE
\* RETURNING the row
UpdatePublication ==
    \E user \in UserIds, id \in 1..MaxRepoRows :
        /\ repo.service = "publications"
        /\ LET hit == {id} \cap MatchingIds(repo.service, repo.rows, user)
           IN  repo' = [repo EXCEPT !.op = "update", !.user = user,
                                    !.limit = 0, !.page = 0, !.seen = <<>>,
                                    !.ids = hit, !.total = 0, !.done = TRUE,
                                    !.hit = hit, !.ret = FALSE]
        /\ OutsideRepo

\* getPublicationById(tenantId, userId, publicationId) or
\* getTaskById(tenantId, taskId): WHERE id = $1 ... AND is_active = TRUE;
\* NotificationService has no such query
GetById ==
    \E user \in UserIds, id \in 1..MaxRepoRows :
        /\ repo.service \in {"publications", "tasks"}
        /\ repo.service = "tasks" => user = "u1"
        /\ repo' = [repo EXCEPT !.op = "get", !.user = user,
                                !.limit = 0, !.page = 0, !.seen = <<>>,
                                !.ids = {id} \cap MatchingIds(repo.service, repo.rows, user),
                                !.total = 0, !.done = TRUE,
                                !.hit = {}, !.ret = FALSE]
        /\ OutsideRepo

\* getPublicationsStats, getUserNotificationStats or getTaskStats: COUNT(*)
\* over the rows WHERE ... is_active = TRUE
GetStats ==
    \E user \in UserIds :
        /\ repo.service \in Services
        /\ repo.service = "tasks" => user = "u1"
        /\ repo' = [repo EXCEPT !.op = "stats", !.user = user,
                                !.limit = 0, !.page = 0, !.seen = <<>>, !.ids = {},
                                !.total = Cardinality(MatchingIds(repo.service, repo.rows, user)),
                                !.done = TRUE, !.hit = {}, !.ret = FALSE]
        /\ OutsideRepo

(***************************************************************************)
(* The statements of the list calls.  A statement is its text, as the      *)
(* pieces the template literal puts together, and its parameter array; a   *)
(* value is written as its text.                                           *)
(***************************************************************************)
\* a piece of SQL the program wrote
Sql(s) == [kind |-> "sql", text |-> s, index |-> 0]

\* a placeholder `$${paramIndex}`
Param(i) == [kind |-> "param", text |-> "$", index |-> i]

\* a value the template literal interpolates: `${limit}`
Value(s) == [kind |-> "value", text |-> s, index |-> 0]

RECURSIVE NumText(_)
\* String(n) of a number that is no negative
NumText(n) ==
    IF n < 10 THEN DigitChar(n) ELSE NumText(n \div 10) \o DigitChar(n % 10)

RECURSIVE JoinAnd(_)
\* whereConditions.join(' AND ')
JoinAnd(conds) ==
    IF Len(conds) = 1 THEN conds[1]
    ELSE conds[1] \o <<Sql(" AND ")>> \o JoinAnd(Tail(conds))

\* `WHERE ${whereConditions.join(' AND ')}`
WhereClause(conds) == <<Sql("WHERE ")>> \o JoinAnd(conds)

\* the values a filter may hold; "" is a filter that was not given, and 0 a
\* page, limit or offset that was not given
FilterTexts == {"", "f"}
ReadTexts == {"", "true", "false"}
PageNumbers == 0..2
LimitNumbers == 0..MaxLimit

\* one optional filter: if (value) { whereConditions.push(`column = 
\* $${paramIndex}`); queryParams.push(value); paramIndex++ }
PushFilter(q, column, value, param) ==
    IF value = "" THEN q
    ELSE [conds |-> Append(q.conds, <<Sql(column), Param(Len(q.params) + 1)>>),
          params |-> Append(q.params, param)]

\* the other NotificationService.findByUser(userId, options): LIMIT and
\* OFFSET are interpolated into the text
FindByUserStatements(userId, unreadOnly, limit, offset, type) ==
    LET lim == IF limit = 0 THEN 50 ELSE limit
        q0 == [conds |-> <<<<Sql("user_id = "), Param(1)>>, <<Sql("is_active = true")>>>>,
               params |-> <<userId>>]
        q1 == IF unreadOnly
              THEN [q0 EXCEPT !.conds = Append(@, <<Sql("read = false")>>)]
              ELSE q0
        q == PushFilter(q1, "type = ", type, type)
    IN  << [text |-> <<Sql("SELECT * FROM ${schema}.notifications ")>>
                     \o WhereClause(q.conds)
                     \o <<Sql(" ORDER BY created_at DESC LIMIT "), Value(NumText(lim)),
                          Sql(" OFFSET "), Value(NumText(offset))>>,
            params |-> q.params],
           [text |-> <<Sql("SELECT COUNT(*) as total FROM ${schema}.notifications ")>>
                     \o WhereClause(q.conds),
            params |-> q.params] >>

\* the page query and the count query of a paginated list: LIMIT and OFFSET
\* are the last two parameters of the page query
PagedStatements(table, q, limit, offset) ==
    << [text |-> <<Sql("SELECT ... FROM ${schema}."), Sql(table)>>
                 \o WhereClause(q.conds)
                 \o <<Sql(" ORDER BY ... LIMIT "), Param(Len(q.params) + 1),
                      Sql(" OFFSET "), Param(Len(q.params) + 2)>>,
        params |-> q.params \o <<NumText(limit), NumText(offset)>>],
       [text |-> <<Sql("SELECT COUNT(*) as total FROM ${schema}."), Sql(table)>>
                 \o WhereClause(q.conds),
        params |-> q.params] >>

\* `(content ILIKE $n OR process_number ILIKE $n)` with the value `%${s}%`
PushSearch(q, columns, search) ==
    IF search = "" THEN q
    ELSE [conds |-> Append(q.conds,
                       <<Sql(columns[1]), Param(Len(q.params) + 1),
                         Sql(columns[2]), Param(Len(q.params) + 1), Sql(")")>>),
          params |-> Append(q.params, "%" \o search \o "%")]

\* PublicationsService.getPublications(tenantId, userId, filters)
GetPublicationsStatements(userId, f) ==
    LET page == IF f.page = 0 THEN 1 ELSE f.page
        limit == IF f.limit = 0 THEN 50 ELSE f.limit
        q0 == [conds |-> <<<<Sql("is_active = TRUE")>>, <<Sql("user_id = "), Param(1)>>>>,
               params |-> <<userId>>]
        q1 == PushFilter(q0, "status = ", f.status, f.status)
        q2 == PushFilter(q1, "source = ", f.source, f.source)
        q3 == PushSearch(q2, <<"(content ILIKE ", " OR process_number ILIKE ">>, f.search)
        q4 == PushFilter(q3, "publication_date >= ", f.dateFrom, f.dateFrom)
        q5 == PushFilter(q4, "publication_date <= ", f.dateTo, f.dateTo)
    IN  PagedStatements("publications", q5, limit, (page - 1) * limit)

\* NotificationService.getUserNotifications(tenantId, userId, filters)
GetUserNotificationsStatements(userId, f) ==
    LET page == IF f.page = 0 THEN 1 ELSE f.page
        limit == IF f.limit = 0 THEN 20 ELSE f.limit
        q0 == [conds |-> <<<<Sql("is_active = TRUE")>>, <<Sql("user_id = "), Param(1)>>>>,
               params |-> <<userId>>]
        q1 == PushFilter(q0, "type = ", f.type, f.type)
        q2 == PushFilter(q1, "read = ", f.read, f.read)
        q3 == PushSearch(q2, <<"(title ILIKE ", " OR message ILIKE ">>, f.search)
    IN  PagedStatements("notifications", q3, limit, (page - 1) * limit)

\* the texts of the values the caller gave, the filters that were not given
\* left out
Given(texts, numbers) ==
    (texts \ {""}) \cup {NumText(n) : n \in numbers \ {0}}

NoStatements == [op |-> "none", sent |-> <<>>, supplied |-> {}]

IdleStatements == sql = NoStatements

\* a call of findByUser hands its two statements to TenantDatabase.query
FindByUser ==
    \E userId \in UserIds, unreadOnly \in BOOLEAN, limit \in LimitNumbers,
       offset \in PageNumbers, type \in FilterTexts :
        /\ sql' = [op |-> "findByUser",
                   sent |-> FindByUserStatements(userId, unreadOnly, limit, offset, type),
                   supplied |-> Given({userId, type}, {limit, offset})]
        /\ OutsideSql

\* a call of getPublications hands its two statements to
\* TenantDatabase.executeInTenantSchema
GetPublications ==
    \E userId \in UserIds,
       f \in [page : PageNumbers, limit : LimitNumbers, status : FilterTexts,
              source : FilterTexts, search : FilterTexts, dateFrom : FilterTexts,
              dateTo : FilterTexts] :
        /\ sql' = [op |-> "getPublications",
                   sent |-> GetPublicationsStatements(userId, f),
                   supplied |-> Given({userId, f.status, f.source, f.search,
                                       f.dateFrom, f.dateTo}, {f.page, f.limit})]
        /\ OutsideSql

\* a call of getUserNotifications hands its two statements to
\* TenantDatabase.executeInTenantSchema
GetUserNotifications ==
    \E userId \in UserIds,
       f \in [page : PageNumbers, limit : LimitNumbers, type : FilterTexts,
              read : ReadTexts, search : FilterTexts] :
        /\ sql' = [op |-> "getUserNotifications",
                   sent |-> GetUserNotificationsStatements(userId, f),
                   supplied |-> Given({userId, f.type, f.read, f.search},
                                      {f.page, f.limit})]
        /\ OutsideSql

(***************************************************************************)
(* The store function execute_sql(query_text, query_params).               *)
(***************************************************************************)
\* the parameters of the longest statement the model sends
MaxParams == 10

\* a JSON null among the parameters, and the SQL NULL a text becomes
Null == <<"NULL">>

\* the values of a parameter array, as texts
ParamValues == {<<"a">>, <<"$", "2">>, Null}

\* '$' || (i + 1)::TEXT
DollarNumber(i) == <<"$">> \o Digits(i)

\* quote_literal(text): the text between single quotes, a quote in it
\* doubled; NULL for NULL
QuoteLiteral(v) ==
    IF v = Null THEN Null
    ELSE <<"'">> \o ReplaceAll(v, <<"'">>, <<"'", "'">>) \o <<"'">>

\* replace(string, from, to): every occurrence of from; NULL when an
\* argument is NULL
SqlReplace(s, from, to) ==
    IF s = Null \/ to = Null THEN Null ELSE ReplaceAll(s, from, to)

RECURSIVE SubstituteFrom(_, _, _)
\* FOR i IN 0..(param_count - 1) LOOP prepared_query := replace(
\* prepared_query, '$' || (i + 1)::TEXT, quote_literal(query_params->>i))
SubstituteFrom(prepared_query, query_params, i) ==
    IF i > Len(query_params) THEN prepared_query
    ELSE SubstituteFrom(
             SqlReplace(prepared_query, DollarNumber(i), QuoteLiteral(query_params[i])),
             query_params, i + 1)

\* the text execute_sql executes
PreparedQuery(query_text, query_params) == SubstituteFrom(query_text, query_params, 1)

RECURSIVE PlaceholderList(_, _)
\* $i, ..., $n
PlaceholderList(i, n) ==
    IF i > n THEN <<>>
    ELSE DollarNumber(i) \o (IF i < n THEN <<",">> ELSE <<>>) \o PlaceholderList(i + 1, n)

\* TasksService.createTask: INSERT INTO ... VALUES ($1, ..., $n), n = 20
InsertText(n) == <<"(">> \o PlaceholderList(1, n) \o <<")">>

NoCall == [query_text |-> <<>>, query_params |-> <<>>, prepared |-> <<>>, done |-> FALSE]

IdleRpc == rpc = NoCall

\* an insert of n parameters is about to be sent
InitRpc ==
    \E n \in 1..MaxParams : \E params \in [1..n -> ParamValues] :
        rpc = [NoCall EXCEPT !.query_text = InsertText(n), !.query_params = params]

\* TenantDatabase.executeInTenantSchema (the version over Supabase) calls
\* rpc('execute_sql'), which prepares the text and executes it
ExecuteSql ==
    /\ ~rpc.done
    /\ rpc.query_text # <<>>
    /\ rpc' = [rpc EXCEPT !.prepared = PreparedQuery(rpc.query_text, rpc.query_params),
                          !.done = TRUE]
    /\ OutsideRpc

(***************************************************************************)
(* Refresh tokens.                                                         *)
(***************************************************************************)
\* the RefreshToken rows the model stores
MaxTokenRows == 3

\* the concurrent calls of AuthService.refreshTokens
RefreshCalls == {1, 2}

\* jwt.sign(payload, refreshTokenSecret, ...): the signature is a function
\* of the payload and of the time of issue (iat), so a token is the two
RefreshToken(userId, iat) == [userId |-> userId, iat |-> iat]

NoToken == RefreshToken("", 0)

CallIdle == [pc |-> "idle", token |-> NoToken, match |-> 0, outcome |-> ""]

AuthIdle == [rows |-> <<>>, issued |-> {}, calls |-> [p \in RefreshCalls |-> CallIdle]]

IdleAuth == auth = AuthIdle

IdleSide == IdleStatements /\ IdleRpc /\ IdleAuth

\* Database.getActiveRefreshTokensForUser(userId) and the loop over it with
\* bcrypt.compare(token, storedToken.tokenHash): the ids of the active rows
\* of the user that hold the token
MatchingTokens(rows, token) ==
    {id \in DOMAIN rows : /\ rows[id].isActive
                          /\ rows[id].userId = token.userId
                          /\ rows[id].token = token}

\* AuthService.generateTokens(user): the refresh token is signed and its
\* hash stored in a new row; an error of the store is logged and the tokens
\* are returned all the same
GenerateTokens(a, userId, iat, stored) ==
    [a EXCEPT !.issued = @ \cup {RefreshToken(userId, iat)},
              !.rows = IF stored
                       THEN Append(@, [token |-> RefreshToken(userId, iat),
                                       userId |-> userId, isActive |-> TRUE])
                       ELSE @]

\* AuthService.loginUser: tokens are generated for the user
Login ==
    \E userId \in UserIds, stored \in BOOLEAN :
        /\ Len(auth.rows) < MaxTokenRows
        /\ auth' = GenerateTokens(auth, userId, now, stored)
        /\ OutsideAuth

\* AuthService.refreshTokens(refreshToken), up to the end of
\* verifyRefreshToken: the call goes on when an active row of the user holds
\* the token, and is rejected otherwise
RefreshVerify ==
    \E p \in RefreshCalls, token \in auth.issued :
        /\ auth.calls[p].pc = "idle"
        /\ auth' = IF MatchingTokens(auth.rows, token) # {}
                   THEN [auth EXCEPT !.calls[p].pc = "verified",
                                     !.calls[p].token = token]
                   ELSE [auth EXCEPT !.calls[p].pc = "done",
                                     !.calls[p].token = token,
                                     !.calls[p].outcome = "rejected"]
        /\ OutsideAuth

\* the user is fetched and the active rows are read a second time; the loop
\* stops at a row that holds the token, if there is one
RefreshFindRow ==
    \E p \in RefreshCalls :
        /\ auth.calls[p].pc = "verified"
        /\ \E id \in MatchingTokens(auth.rows, auth.calls[p].token) \cup {0} :
              /\ id = 0 => MatchingTokens(auth.rows, auth.calls[p].token) = {}
              /\ auth' = [auth EXCEPT !.calls[p].pc = "found",
                                      !.calls[p].match = id]
        /\ OutsideAuth

\* Database.revokeRefreshTokenById(storedToken.id), when a row was found
RefreshRevoke ==
    \E p \in RefreshCalls :
        /\ auth.calls[p].pc = "found"
        /\ auth' = [auth EXCEPT
                      !.calls[p].pc = "revoked",
                      !.rows = IF auth.calls[p].match = 0 THEN @
                               ELSE [@ EXCEPT ![auth.calls[p].match].isActive = FALSE]]
        /\ OutsideAuth

\* new tokens are generated and the call returns them
RefreshGenerate ==
    \E p \in RefreshCalls, stored \in BOOLEAN :
        /\ auth.calls[p].pc = "revoked"
        /\ Len(auth.rows) < MaxTokenRows
        /\ auth' = [GenerateTokens(auth, auth.calls[p].token.userId, now, stored)
                      EXCEPT !.calls[p].pc = "done", !.calls[p].outcome = "ok"]
        /\ OutsideAuth

InitCore ==
    /\ now = 1
    /\ tenants = {}
    /\ store = EmptyFn
    /\ nextRow = 0
    /\ prov = NoRun
    /\ provRuns = 0
    /\ req = [r \in Reqs |-> ReqIdle]
    /\ drop = NoDrop

(***************************************************************************)
(* The specifications.                                                     *)
(***************************************************************************)
\* the expander alone, on every template and identifier of the bounds
InitX == InitExpand /\ InitCore /\ InitRegister /\ InitDashboard /\ IdleRepo /\ IdleSide

NextExpand ==
    \/ ExpandInExecute
    \/ ExpandInGetTenants

SpecExpand == InitX /\ [][NextExpand]_vars

\* the executor over schemas TenantService provisions
Init == IdleExpand /\ InitCore /\ InitRegister /\ InitDashboard /\ IdleRepo /\ IdleSide

Next ==
    \/ InitializeTenantSchema
    \/ ExecBegin
    \/ ExecStore
    \/ ReqReturn

Spec == Init /\ [][Next]_vars

\* TasksService and the mock executor over the same store
NextTasks ==
    \/ InitializeTenantSchema
    \/ ExecBegin
    \/ ExecStore
    \/ ReqReturn
    \/ MockExec
    \/ GetTaskStatsBegin
    \/ GetTaskStatsStore
    \/ GetTasksBegin
    \/ GetTasksInit
    \/ GetTasksQuery

SpecTasks == Init /\ [][NextTasks]_vars

\* the tenant registry, both provisioners and the executor
NextRegistry ==
    \/ Tick
    \/ AdminCreateTenant
    \/ InitializeTenantSchema
    \/ FixTenantSchemas
    \/ NotificationsInitializeTables
    \/ ExecBegin
    \/ ExecStore
    \/ ReqReturn

SpecRegistry == Init /\ [][NextRegistry]_vars

\* paging through the publications or the notifications of a user, with no
\* write to the table
InitPages ==
    /\ IdleExpand
    /\ InitCore
    /\ InitRegister
    /\ InitDashboard
    /\ InitRepo({"publications", "notifications"}, Stamps)
    /\ IdleSide

NextPages ==
    \/ ListBegin
    \/ ListPage

SpecPages == InitPages /\ [][NextPages]_vars

\* the repository of a module with its soft delete: rows are deleted, listed,
\* fetched by id and counted.  The rows hold one sort key, so that a list is
\* answered in every order of its rows
InitSoftDelete ==
    /\ IdleExpand
    /\ InitCore
    /\ InitRegister
    /\ InitDashboard
    /\ InitRepo(Services, {1})
    /\ IdleSide

NextSoftDelete ==
    \/ DeleteRows
    \/ ListBegin
    \/ ListPage
    \/ GetById
    \/ GetStats

SpecSoftDelete == InitSoftDelete /\ [][NextSoftDelete]_vars

\* the administration of tenants: their rows are created and deleted, their
\* schemas provisioned and dropped
NextAdmin ==
    \/ AdminCreateTenant
    \/ AdminDeleteTenant
    \/ InitializeTenantSchema
    \/ DeleteTenantSchema

SpecAdmin == Init /\ [][NextAdmin]_vars

\* the makers of tables: the provisioner, the repair script and the modules
\* that create their table on first use, in any order
NextSchemas ==
    \/ AdminCreateTenant
    \/ InitializeTenantSchema
    \/ FixTenantSchemas
    \/ NotificationsInitializeTables
    \/ PublicationsInitializeTables
    \/ GetTasksBegin
    \/ GetTasksInit
    \/ GetTasksQuery
    \/ ReqReturn

SpecSchemas == Init /\ [][NextSchemas]_vars

\* registration: the keys, the concurrent registerUser calls and the Tenant
\* rows they create
NextRegister ==
    \/ Tick
    \/ AdminCreateTenant
    \/ TenantServiceCreateTenant
    \/ GenerateKey
    \/ RevokeKey
    \/ RegisterBegin
    \/ RegFindKey
    \/ RegFindUser
    \/ RegTenant
    \/ RegCreateUser
    \/ RegUpdateKey

SpecRegister == Init /\ [][NextRegister]_vars

\* the dashboard aggregation over statistics calls that answer or fail
NextDashboard ==
    \/ DashBegin
    \/ DashSettle
    \/ DashNextQuery
    \/ DashJoinBasic
    \/ DashJoinFinancial
    \/ DashJoinPublications

SpecDashboard == Init /\ [][NextDashboard]_vars

\* the dashboard behind its controller, in a store where the provisioner ran
\* to its end for the first tenant and never for the second
ProvisionedTenant == <<"a", "1">>

InitStats ==
    /\ IdleExpand
    /\ now = 1
    /\ tenants = {}
    /\ store = RunStatements(EmptyFn, "initializeTenantSchema",
                             SchemaNameOf(ProvisionedTenant),
                             StatementCount("initializeTenantSchema"))
    /\ nextRow = 0
    /\ prov = [NoRun EXCEPT !.kind = "initializeTenantSchema",
                            !.schemaName = SchemaNameOf(ProvisionedTenant),
                            !.completed = TRUE,
                            !.missingAtStart = DomainTables,
                            !.created = DomainTables \ {NotificationsTable}]
    /\ provRuns = 1
    /\ req = [r \in Reqs |-> ReqIdle]
    /\ drop = NoDrop
    /\ InitRegister
    /\ InitDashboard
    /\ IdleRepo
    /\ IdleSide

NextStats ==
    \/ GetStatsBegin
    \/ DashSettle
    \/ DashNextQuery
    \/ DashJoinBasic
    \/ DashJoinFinancial
    \/ DashJoinPublications
    \/ GetStatsRespond

SpecStats == InitStats /\ [][NextStats]_vars

C2_AllSitesReplaceEveryOccurrence ==
    xDone => xOut = Flatten(SubstSegs(xSegs, xSchema))

(***************************************************************************)
(* C3: a registration key is consumed at most usesAllowed times: the users *)
(* created with a key never outnumber its usesAllowed, whatever the        *)
(* interleaving of the registerUser calls that present it.  Two calls that *)
(* read the key before either writes it back both register.               *)
(***************************************************************************)
C3_KeyUsesBounded ==
    \A k \in DOMAIN keys :
        Cardinality({u \in users : u.key = k}) <= keys[k].usesAllowed

(***************************************************************************)
(* C4: the decrement of a key is atomic with the creation of the user.     *)
(* After a registerUser call has ended, its user row exists exactly when   *)
(* the key's usage log names that user; and once every call has ended, the *)
(* uses taken from a key are as many as the users created with it.  A      *)
(* store error at the key update, or a concurrent update, leaves a user    *)
(* the key does not account for.                                           *)
(***************************************************************************)
C4_DecrementAtomicWithUser ==
    /\ \A p \in RegCalls :
          reg[p].pc = "done" =>
              ((\E u \in users : u.id = reg[p].userId)
                 <=> (/\ reg[p].keyId \in DOMAIN keys
                      /\ \E i \in 1..Len(keys[reg[p].keyId].usedLogs) :
                            keys[reg[p].keyId].usedLogs[i] = reg[p].userId))
    /\ (\A p \in RegCalls : reg[p].pc \in {"idle", "done"}) =>
          \A k \in DOMAIN keys :
              keys[k].usesLeft + Cardinality({u \in users : u.key = k})
                  = keys[k].usesAllowed

(***************************************************************************)
(* C5: partial-failure tolerance.  When exactly one of the statistics      *)
(* calls for clients, projects, tasks, transactions and invoices has       *)
(* failed, getDashboardMetrics ends in success; the section of the failed  *)
(* module is all zeros and every other section carries the counts its      *)
(* module answered.  A rejected clients or projects call fails the whole   *)
(* aggregate, a rejected transactions call zeroes the invoices as well,    *)
(* and the last version reads two counts of the tasks row under names the  *)
(* row does not have.                                                      *)
(***************************************************************************)
C5_OneFailureDegradesToZeros ==
    (/\ dash.pc = "done"
     /\ dash.pending = {}
     /\ Cardinality(dash.failed) = 1
     /\ dash.failed \subseteq StatModules)
        => /\ dash.outcome = "ok"
           /\ dash.metrics.clients = dash.value["clients"]
           /\ dash.metrics.projects = dash.value["projects"]
           /\ \A f \in DOMAIN dash.metrics.tasks :
                 dash.metrics.tasks[f] = dash.value["tasks"]
           /\ dash.metrics.financial.transactions = dash.value["transactions"]
           /\ dash.metrics.financial.invoices = dash.value["invoices"]

(***************************************************************************)
(* C6: provisioning is idempotent.  A run of the provisioner on a schema   *)
(* that already holds every table the provisioner defines leaves the       *)
(* store - its schemas, tables and rows - as it was.                       *)
(***************************************************************************)
C6_ProvisionIdempotent ==
    [][(provRuns' # provRuns /\ FullyProvisioned(store, prov'.schemaName))
          => store' = store]_vars

\* a run completed on a schema that was fully provisioned and held rows
C6_Witness ==
    /\ prov.kind = "initializeTenantSchema"
    /\ prov.completed
    /\ prov.fullAtStart
    /\ prov.hadRows

(***************************************************************************)
(* C7: repair.  A completed run of a provisioner on a schema that lacked   *)
(* exactly one of the domain tables created that table and no other, and   *)
(* kept the rows of the tables that were there.  Neither provisioner       *)
(* defines the notifications table.                                        *)
(***************************************************************************)
C7_RepairCreatesMissingTable ==
    (prov.completed /\ Cardinality(prov.missingAtStart) = 1)
        => (prov.created = prov.missingAtStart /\ prov.rowsKept)

(***************************************************************************)
(* C8: a tenant-scoped read that ends in success with an empty result and  *)
(* a zero count ran against a table that exists; a missing schema or table *)
(* is never answered as a successful empty result.  getTaskStats and       *)
(* getTasks catch the store's error and answer zeros, and the third        *)
(* TenantDatabase answers [] without asking the store.                     *)
(***************************************************************************)
C8_MissingSchemaIsNotEmptySuccess ==
    \A r \in Reqs :
        (/\ req[r].pc = "done"
         /\ req[r].outcome = "ok"
         /\ req[r].stmt # "insert"
         /\ req[r].rows = {}
         /\ req[r].total = 0) => req[r].sawTable

(***************************************************************************)
(* C9: the schema an executor call works in is the schema name recorded in *)
(* the Tenant row of the call's tenant.  The executor builds the name from *)
(* the tenant id; the registry records a name built from the clock.        *)
(***************************************************************************)
C9_ExecutorUsesRecordedSchema ==
    \A r \in Reqs :
        req[r].pc # "idle" =>
            \A t \in tenants :
                t.id = req[r].tenantId => req[r].schema = t.schemaName

(***************************************************************************)
(* C10: no identifier with a character outside [A-Za-z0-9_] is spliced     *)
(* into the text of a query that reaches the store.  The executor splices  *)
(* the tenant id as it is.                                                 *)
(***************************************************************************)
C10_OnlyCleanIdentifiersSpliced ==
    \A r \in Reqs :
        req[r].pc # "idle" => IsCleanIdentifier(req[r].schema)

(***************************************************************************)
(* C11: the output of the expander in TenantDatabase.executeInTenantSchema *)
(* holds, at each position where the template had the schema placeholder,  *)
(* the schema identifier of the tenant enclosed in double quotes, for      *)
(* every tenant id; the rest of the template is left as it was.            *)
(***************************************************************************)
C11_PlaceholdersBecomeQuotedIdentifier ==
    (xDone /\ xSite = "executeInTenantSchema")
        => xOut = Flatten(SubstSegs(xSegs, QuotedIdentifier(xSchema)))

(***************************************************************************)
(* C12: when TenantService.initializeTenantSchema returns without an error *)
(* for a tenant, the schema of that tenant holds all seven domain tables:  *)
(* clients, projects, tasks, transactions, invoices, publications and      *)
(* notifications.  Every domain table that was missing when the run began  *)
(* is one the run created.                                                 *)
(***************************************************************************)
C12_ProvisionedSchemaHoldsSevenTables ==
    (prov.kind = "initializeTenantSchema" /\ prov.completed)
        => /\ Cardinality(DomainTables) = 7
           /\ prov.missingAtStart \subseteq prov.created

(***************************************************************************)
(* C13: no schema drift.  Whatever the order in which the provisioner      *)
(* (TenantService.initializeTenantSchema), the fix-tenant-schemas script   *)
(* and the lazy initializeTables of TasksService, PublicationsService and  *)
(* NotificationService run, a domain table that two tenant schemas both    *)
(* hold has the same column shape in both.                                 *)
(***************************************************************************)
C13_NoSchemaDrift ==
    \A s1 \in DOMAIN store, s2 \in DOMAIN store :
        \A t \in DomainTables :
            (TableExists(store, s1, t) /\ TableExists(store, s2, t))
                => store[s1][t].shape = store[s2][t].shape

(***************************************************************************)
(* C14: tenant deletion cascades.  When AdminController.deleteTenant       *)
(* deletes a tenant and reports success, the schema of that tenant, with   *)
(* all tables in it, exists no longer: neither the schema its Tenant row   *)
(* records nor the schema the executor resolves from its id.               *)
(***************************************************************************)
C14_DeleteTenantDropsSchema ==
    [][\A t \in tenants \ tenants' :
          /\ ~SchemaExists(store', t.schemaName)
          /\ ~SchemaExists(store', SchemaNameOf(t.id))]_vars

(***************************************************************************)
(* C15: TenantService.deleteTenantSchema drops a schema only when the      *)
(* caller passed an explicit confirmation flag; a call that supplies the   *)
(* schema identifier alone drops nothing.                                  *)
(***************************************************************************)
C15_DropNeedsConfirmation ==
    drop.dropped => drop.confirm

(***************************************************************************)
(* C16: every operation that creates a Tenant row provisions the schema    *)
(* and the domain tables of that tenant before it reports success.  For    *)
(* AdminController.createTenant and TenantService.createTenant, which      *)
(* store the row and answer in one step, the schema the row records holds  *)
(* the provisioner's tables when the row appears; for                      *)
(* AuthService.registerUser with a key bound to no tenant it does when the *)
(* call ends with success.  No tenant that was created with success is     *)
(* without its schema.                                                     *)
(***************************************************************************)
C16_CreatedTenantIsProvisioned ==
    [][/\ \A t \in tenants' \ tenants :
              reg' = reg => FullyProvisioned(store', t.schemaName)
       /\ \A p \in RegCalls :
              (/\ reg[p].pc # "done"
               /\ reg'[p].pc = "done"
               /\ reg'[p].outcome = "ok"
               /\ reg'[p].isNewTenant)
                  => \A t \in tenants' :
                         t.id = reg'[p].tenantId
                             => FullyProvisioned(store', t.schemaName)]_vars

(***************************************************************************)
(* C17: pagination.  For PublicationsService.getPublications and           *)
(* NotificationService.getUserNotifications with a fixed filter and no     *)
(* write to the table, the pages 1, 2, ... up to the page whose hasNext is *)
(* false return every matching active row exactly once, and the number of  *)
(* rows over all pages equals pagination.total.                            *)
(***************************************************************************)
C17_PagesReturnEachRowOnce ==
    (repo.op = "list" /\ repo.done /\ repo.service \in {"publications", "notifications"})
        => /\ \A id \in MatchingIds(repo.service, repo.rows, repo.user) :
                  Cardinality({i \in DOMAIN repo.seen : repo.seen[i] = id}) = 1
           /\ \A i \in DOMAIN repo.seen :
                  repo.seen[i] \in MatchingIds(repo.service, repo.rows, repo.user)
           /\ Len(repo.seen) = repo.total

(***************************************************************************)
(* C18: soft delete.  A row deleted through a module repository            *)
(* (PublicationsService.deletePublication, TasksService.deleteTask,        *)
(* NotificationService.deleteNotifications) is never physically removed:   *)
(* it stays in the table with is_active = FALSE, and no later list, get by *)
(* id or statistics query of the module returns or counts it.              *)
(***************************************************************************)
C18_SoftDeletedRowsStayHidden ==
    /\ \A id \in repo.deleted :
          /\ id \in DOMAIN repo.rows
          /\ ~repo.rows[id].active
    /\ repo.op \in {"list", "get"} =>
          /\ repo.ids \cap repo.deleted = {}
          /\ \A i \in DOMAIN repo.seen : repo.seen[i] \notin repo.deleted
    /\ (repo.op = "stats" \/ (repo.op = "list" /\ repo.done)) =>
          repo.total = Cardinality({id \in DOMAIN repo.rows :
                                       /\ id \notin repo.deleted
                                       /\ repo.rows[id].active
                                       /\ repo.service = "tasks"
                                              \/ repo.rows[id].user = repo.user})

\* after a row was deleted, a list of the module was answered with the rows
\* that are left
C18_Witness ==
    /\ repo.deleted # {}
    /\ repo.op = "list"
    /\ repo.done
    /\ repo.ids # {}
    /\ \E id \in repo.deleted : repo.service = "tasks" \/ repo.rows[id].user = repo.user

(***************************************************************************)
(* C19: account-tier gating.  getDashboardMetrics issues the statistics    *)
(* calls for transactions and invoices only when accountType is COMPOSTA   *)
(* or GERENCIAL; for any other account type no financial statistics call   *)
(* is made and every field of the financial section of the result is 0.    *)
(***************************************************************************)
C19_FinancialStatsOnlyForPaidTiers ==
    dash.accountType \notin {"COMPOSTA", "GERENCIAL"}
        => /\ dash.issued \cap {"transactions", "invoices"} = {}
           /\ (dash.pc = "done" /\ dash.outcome = "ok")
                 => /\ dash.metrics.financial.transactions = 0
                    /\ dash.metrics.financial.invoices = 0

(***************************************************************************)
(* C20: dashboard statistics asked (DashboardController.getStats calling   *)
(* DashboardService.getDashboardMetrics) for a tenant whose schema was     *)
(* never provisioned end in exactly one of two outcomes: a distinct        *)
(* tenant-not-initialized error, or a schema that was provisioned on the   *)
(* way and a result of zeros; no exception leaves the controller, so the   *)
(* request is always answered by the controller itself.                    *)
(***************************************************************************)
C20_UnprovisionedTenantOutcome ==
    (/\ dash.caller = "getStats"
     /\ dash.pc = "responded"
     /\ ~dash.schemaAtStart)
        => /\ dash.response.status # 0
           /\ \/ dash.response.error = "TenantNotInitializedError"
              \/ /\ dash.response.status = 200
                 /\ dash.response.body = NoMetrics
                 /\ SchemaExists(store, SchemaNameOf(dash.tenantId))

(***************************************************************************)
(* Updates of a Tenant row by the administrator.                           *)
(***************************************************************************)
\* schema names a request body may carry
BodySchemaNames == {<<"p", "u", "b", "l", "i", "c">>}

\* the bodies of PUT /tenants/:id (req.body is handed on as it came): a
\* field that is absent is the empty sequence or the empty set
UpdateBodies ==
    [schemaName : BodySchemaNames \cup {<<>>},
     isActive : {{}, {TRUE}, {FALSE}},
     is_active : {{}, {TRUE}, {FALSE}}]

\* Database.updateTenant: prisma.tenant.update({where: {id}, data:
\* {...updateData, updatedAt}}); every field of the body that is a field of
\* Tenant is written, a field that is none (is_active) is refused
UpdateTenant(rows, id, updateData) ==
    IF updateData.is_active # {} THEN rows
    ELSE {IF t.id # id THEN t
          ELSE [t EXCEPT
                  !.schemaName = IF updateData.schemaName # <<>>
                                 THEN updateData.schemaName ELSE @,
                  !.isActive = IF updateData.isActive # {}
                               THEN CHOOSE b \in updateData.isActive : TRUE
                               ELSE @] : t \in rows}

\* Database.updateTenant, the version in SQL: name, plan_type, max_users,
\* max_storage and is_active are set with COALESCE, nothing else
UpdateTenantSql(rows, id, data) ==
    {IF t.id # id THEN t
     ELSE [t EXCEPT !.isActive = IF data.is_active # {}
                                 THEN CHOOSE b \in data.is_active : TRUE
                                 ELSE @] : t \in rows}

\* AdminController.updateTenant: database.updateTenant(id, req.body)
AdminUpdateTenant ==
    \E id \in TenantIds, body \in UpdateBodies :
        /\ \/ tenants' = UpdateTenant(tenants, id, body)
           \/ tenants' = UpdateTenantSql(tenants, id, body)
        /\ UNCHANGED <<now, store, nextRow, prov, provRuns, req>>
        /\ OutsideCore

\* AdminController.toggleTenantStatus: database.toggleTenantStatus is no
\* method of Database, the call throws and the handler answers 500; the
\* handler of the other controller answers without touching the store
AdminToggleTenantStatus ==
    \E id \in TenantIds, isActive \in BOOLEAN :
        /\ UNCHANGED <<now, tenants, store, nextRow, prov, provRuns, req>>
        /\ OutsideCore

NextTenants ==
    \/ Tick
    \/ AdminCreateTenant
    \/ AdminUpdateTenant
    \/ AdminToggleTenantStatus

SpecTenants == Init /\ [][NextTenants]_vars

(***************************************************************************)
(* C22: schema names are immutable: once a Tenant row has been created, no *)
(* operation of the administrator (AdminController.updateTenant with any   *)
(* request body, toggleTenantStatus) changes the schema name of the tenant.*)
(***************************************************************************)
C22_SchemaNameImmutable ==
    [][\A t \in tenants : \A u \in tenants' :
          u.id = t.id => u.schemaName = t.schemaName]_vars

\* the list calls and the statements they hand to the executor
NextStatements ==
    \/ FindByUser
    \/ GetPublications
    \/ GetUserNotifications

SpecStatements == Init /\ [][NextStatements]_vars

(***************************************************************************)
(* C23: every value the caller supplies to a tenant-scoped query (filter   *)
(* values, ids, limit and offset) reaches the store as a bound positional  *)
(* parameter only; none is spliced into the text of the statement.  This   *)
(* holds for NotificationService.findByUser,                               *)
(* PublicationsService.getPublications and                                 *)
(* NotificationService.getUserNotifications.                               *)
(***************************************************************************)
C23_CallerValuesAreBound ==
    \A s \in 1..Len(sql.sent) : \A k \in 1..Len(sql.sent[s].text) :
        sql.sent[s].text[k].kind = "value"
            => sql.sent[s].text[k].text \notin sql.supplied

\* a call of execute_sql with the insert of TasksService.createTask
InitCall ==
    /\ IdleExpand
    /\ InitCore
    /\ InitRegister
    /\ InitDashboard
    /\ IdleRepo
    /\ IdleStatements
    /\ InitRpc
    /\ IdleAuth

NextCall == ExecuteSql

SpecCall == InitCall /\ [][NextCall]_vars

IsDigit(c) == c \in {"0", "1", "2", "3", "4", "5", "6", "7", "8", "9"}

RECURSIVE DigitRun(_, _)
\* the length of the longest run of digits of s that starts at position i
DigitRun(s, i) ==
    IF i > Len(s) \/ ~IsDigit(s[i]) THEN 0 ELSE 1 + DigitRun(s, i + 1)

RECURSIVE NumberOf(_)
\* the number a text of digits denotes
NumberOf(ds) ==
    IF ds = <<>> THEN 0
    ELSE 10 * NumberOf(SubSeq(ds, 1, Len(ds) - 1))
           + (CHOOSE d \in 0..9 : DigitChar(d) = ds[Len(ds)])

\* a bound value as the statement sees it
BoundLiteral(v) == IF v = Null THEN <<"N", "U", "L", "L">> ELSE QuoteLiteral(v)

RECURSIVE BindFrom(_, _, _)
\* the text from position i on, each placeholder $i (the '$' and all the
\* digits that follow it) standing for params[i], and no other text touched
BindFrom(s, params, i) ==
    IF i > Len(s) THEN <<>>
    ELSE LET run == DigitRun(s, i + 1)
             n == NumberOf(SubSeq(s, i + 1, i + run))
         IN  IF s[i] = "$" /\ run > 0 /\ n \in 1..Len(params)
             THEN BoundLiteral(params[n]) \o BindFrom(s, params, i + 1 + run)
             ELSE <<s[i]>> \o BindFrom(s, params, i + 1)

(***************************************************************************)
(* C24: positional binding: for a query of n parameters executed through   *)
(* the store function execute_sql, params[i-1] is bound to exactly the     *)
(* occurrences of the placeholder $i and to no other text, for every i in  *)
(* 1..n and every n, n >= 10 included, where the text '$1' is a prefix of  *)
(* '$10' (the insert of TasksService.createTask has 20 parameters).        *)
(***************************************************************************)
C24_PositionalBinding ==
    rpc.done => rpc.prepared = BindFrom(rpc.query_text, rpc.query_params, 1)

\* logins and calls of refreshTokens, as the clock advances
NextAuth ==
    \/ Tick
    \/ Login
    \/ RefreshVerify
    \/ RefreshFindRow
    \/ RefreshRevoke
    \/ RefreshGenerate

SpecAuth == Init /\ [][NextAuth]_vars

(***************************************************************************)
(* C26: a refresh token is single-use: of the calls of                     *)
(* AuthService.refreshTokens that present the same refresh token, however  *)
(* they interleave, at most one succeeds, and after a call has succeeded   *)
(* the token it presented is rejected by every later call.                 *)
(***************************************************************************)
C26_RefreshTokenSingleUse ==
    \A p, q \in RefreshCalls :
        (/\ p # q
         /\ auth.calls[p].outcome = "ok"
         /\ auth.calls[q].outcome = "ok")
            => auth.calls[p].token # auth.calls[q].token

\* the publications of one tenant: rows are created, listed, fetched by id,
\* counted, updated and deleted by the users of the tenant
InitPublications ==
    /\ IdleExpand
    /\ InitCore
    /\ InitRegister
    /\ InitDashboard
    /\ InitRepo({"publications"}, {1})
    /\ IdleSide

NextPublications ==
    \/ CreatePublication
    \/ ListBegin
    \/ ListPage
    \/ GetById
    \/ GetStats
    \/ UpdatePublication
    \/ DeleteRows

SpecPublications == InitPublications /\ [][NextPublications]_vars

(***************************************************************************)
(* C25: publications are isolated per user.  Within one tenant, for users  *)
(* U # V, a publication created for U is never returned by                 *)
(* getPublications or getPublicationById called for V nor counted by       *)
(* getPublicationsStats called for V, and updatePublication and            *)
(* deletePublication called for V never modify it, after any sequence of   *)
(* publication operations.                                                 *)
(***************************************************************************)
C25_PublicationsIsolatedPerUser ==
    /\ repo.op \in {"update", "delete"} =>
          \A id \in repo.hit : repo.rows[id].user = repo.user
    /\ repo.op \in {"list", "get", "update"} =>
          /\ \A id \in repo.ids : repo.rows[id].user = repo.user
          /\ \A i \in DOMAIN repo.seen : repo.rows[repo.seen[i]].user = repo.user
    /\ repo.op = "stats" =>
          repo.total <= Cardinality({id \in DOMAIN repo.rows :
                                        repo.rows[id].user = repo.user})

\* a user listed publications and was answered some, while the table holds
\* an active publication of the other user
C25_Witness ==
    /\ repo.op = "list"
    /\ repo.done
    /\ repo.ids # {}
    /\ \E id \in DOMAIN repo.rows :
          repo.rows[id].active /\ repo.rows[id].user # repo.user

(***************************************************************************)
(* C30: PublicationsService.deletePublication returns true exactly when an *)
(* active publication of the given id owned by the given user existed and  *)
(* was deactivated by the call, and false otherwise; hence                 *)
(* PublicationsController.deletePublication answers 404 only when nothing  *)
(* was deleted.                                                            *)
(***************************************************************************)
C30_DeleteReturnsWhetherDeleted ==
    (repo.service = "publications" /\ repo.op = "delete")
        => (repo.ret <=> repo.hit # {})

(***************************************************************************)
(* C27: key usage accounting.  In every reachable state and for every      *)
(* registration key, 0 <= usesLeft <= usesAllowed and usesLeft =           *)
(* usesAllowed - (the number of users successfully registered with the     *)
(* key), under any interleaving of registerUser calls.                     *)
(***************************************************************************)
C27_KeyUsageAccounting ==
    \A k \in DOMAIN keys :
        /\ 0 <= keys[k].usesLeft
        /\ keys[k].usesLeft <= keys[k].usesAllowed
        /\ keys[k].usesLeft
             = keys[k].usesAllowed
                 - Cardinality({p \in RegCalls : /\ reg[p].outcome = "ok"
                                                 /\ reg[p].keyId = k})

(***************************************************************************)
(* C28: once RegistrationKeyService.revokeKey(k) has completed, no user is *)
(* created with key k any more, under any interleaving with registerUser   *)
(* calls, a call that looked the key up before the revocation completed    *)
(* included.                                                               *)
(***************************************************************************)
C28_NoUserAfterRevocation ==
    [][\A k \in DOMAIN keys :
          keys[k].revoked => {u \in users' : u.key = k} \subseteq users]_vars

(***************************************************************************)
(* C29: a registerUser call that fails (invalid key, email registered      *)
(* already, or a store error at any step) leaves the persisted state       *)
(* unchanged: no tenant row, no user row and no change to the usesLeft or  *)
(* the usage log of any key remains from the call.                         *)
(***************************************************************************)
C29_FailedRegistrationLeavesNothing ==
    \A p \in RegCalls :
        reg[p].outcome = "error" =>
            /\ reg[p].isNewTenant => \A t \in tenants : t.id # reg[p].tenantId
            /\ \A u \in users : u.id # reg[p].userId
            /\ \A k \in DOMAIN keys :
                  \A i \in 1..Len(keys[k].usedLogs) :
                      keys[k].usedLogs[i] # reg[p].userId \/ reg[p].userId = 0

=============================================================================
